---------------------------- MODULE Spec2Model ----------------------------
(***************************************************************************)
(* A model of acebase-core's client-facing data access layer:              *)
(*   - the transport codec (src/src/transport.js: serialize, deserialize), *)
(*   - DataReference (set, remove, transaction, on, off, get, once),       *)
(*   - DataReferenceQuery (where, take, skip, order, get).                 *)
(* Strings are sequences of one-character strings, so that path joining    *)
(* and path splitting are modelled by what they do to the characters.      *)
(***************************************************************************)
EXTENDS Integers, Sequences, FiniteSets, TLC

(***************************************************************************)
(* Bounds of the model.                                                    *)
(***************************************************************************)
\* nesting depth of the values the codec is run on
MaxDepth == 2
\* calls of set / remove on References in one run
MaxWriteOps == 3
\* calls of the query builder methods and of get in one run
MaxBuilderCalls == 4
\* filters one query descriptor holds
MaxFilters == 1
\* transactions started on the one path
MaxTxns == 2
\* writes of other clients to that path while the transactions run
MaxOtherWrites == 1
\* registrations made on the one Reference while clients write to its node
MaxOn == 1
\* calls of on and off on that Reference
MaxCalls == 3
\* children added to the Reference's node while it is subscribed to
MaxAdds == 1
\* events whose data the backend fails to get
MaxErrors == 1
\* calls of push in one run
MaxPush == 2
\* matches one query yields
MaxMatches == 3

(***************************************************************************)
(* JavaScript values.  Every value is a record of the same shape:          *)
(*   kind : "undefined","null","num","str","date","bin","ref","obj","arr"  *)
(*   n    : a number's value, a Date's millisecond timestamp (-1: NaN)     *)
(*   s    : a string's characters, a PathReference's path                  *)
(*   b    : an ArrayBuffer's bytes                                         *)
(*   kids : own enumerable properties in insertion order, <<key, value>>   *)
(***************************************************************************)
JsVal(kind, n, s, b, kids) == [kind |-> kind, n |-> n, s |-> s, b |-> b, kids |-> kids]
Undefined == JsVal("undefined", 0, <<>>, <<>>, <<>>)
Null == JsVal("null", 0, <<>>, <<>>, <<>>)
Num(n) == JsVal("num", n, <<>>, <<>>, <<>>)
Str(s) == JsVal("str", 0, s, <<>>, <<>>)
DateV(ms) == JsVal("date", ms, <<>>, <<>>, <<>>)
InvalidDate == DateV(-1)
ArrayBuffer(b) == JsVal("bin", 0, <<>>, b, <<>>)
PathReference(p) == JsVal("ref", 0, p, <<>>, <<>>)
Obj(kids) == JsVal("obj", 0, <<>>, <<>>, kids)
Arr(kids) == JsVal("arr", 0, <<>>, <<>>, kids)
\* the result of an operation that threw
Threw == JsVal("threw", 0, <<>>, <<>>, <<>>)

IsContainer(v) == v.kind \in {"obj", "arr"}

\* index of key in kids, 0 when the value has no such own property
RECURSIVE KeyIndexFrom(_, _, _)
KeyIndexFrom(kids, key, i) ==
    IF i > Len(kids) THEN 0
    ELSE IF kids[i][1] = key THEN i
    ELSE KeyIndexFrom(kids, key, i + 1)

KeyIndex(kids, key) == KeyIndexFrom(kids, key, 1)

KeySet(kids) == {kids[i][1] : i \in 1..Len(kids)}

(***************************************************************************)
(* Characters and numbers.                                                 *)
(***************************************************************************)
Digits == <<"0", "1", "2", "3", "4", "5", "6", "7", "8", "9">>

IsDigit(c) == \E i \in 1..10 : Digits[i] = c

DigitValue(c) == (CHOOSE i \in 1..10 : Digits[i] = c) - 1

\* String(n) for a non-negative integer
RECURSIVE NumToStr(_)
NumToStr(n) ==
    IF n < 10 THEN <<Digits[n + 1]>>
    ELSE NumToStr(n \div 10) \o <<Digits[(n % 10) + 1]>>

\* the number written by a sequence of digits
RECURSIVE StrToNum(_)
StrToNum(s) ==
    IF Len(s) = 0 THEN 0
    ELSE 10 * StrToNum(SubSeq(s, 1, Len(s) - 1)) + DigitValue(s[Len(s)])

RECURSIVE LeadingDigits(_)
LeadingDigits(s) ==
    IF Len(s) = 0 \/ ~IsDigit(Head(s)) THEN <<>>
    ELSE <<Head(s)>> \o LeadingDigits(Tail(s))

NaNKey == <<"N", "a", "N">>

\* parseInt(s) used as a property key: the key a number index addresses
parseIntKey(s) ==
    IF LeadingDigits(s) = <<>> THEN NaNKey
    ELSE NumToStr(StrToNum(LeadingDigits(s)))

\* String.prototype.substr(start, length), start counted from 0
substr(s, start, length) ==
    IF length <= 0 \/ start >= Len(s) THEN <<>>
    ELSE SubSeq(s, start + 1, IF start + length > Len(s) THEN Len(s) ELSE start + length)

\* path.replace(/\[/g, "/[")
RECURSIVE replaceBracket(_)
replaceBracket(s) ==
    IF Len(s) = 0 THEN <<>>
    ELSE (IF Head(s) = "[" THEN <<"/", "[">> ELSE <<Head(s)>>) \o replaceBracket(Tail(s))

\* s.split("/"): always at least one piece
RECURSIVE splitFrom(_, _)
splitFrom(s, cur) ==
    IF Len(s) = 0 THEN <<cur>>
    ELSE IF Head(s) = "/" THEN <<cur>> \o splitFrom(Tail(s), <<>>)
    ELSE splitFrom(Tail(s), Append(cur, Head(s)))

split(s) == splitFrom(s, <<>>)

(***************************************************************************)
(* Date.prototype.toISOString and new Date(x).                             *)
(***************************************************************************)
toISOString(ms) == <<"T">> \o NumToStr(ms) \o <<"Z">>

IsISOString(s) ==
    /\ Len(s) >= 3
    /\ s[1] = "T"
    /\ s[Len(s)] = "Z"
    /\ \A i \in 2..(Len(s) - 1) : IsDigit(s[i])

newDate(v) ==
    IF v.kind = "str" THEN
        IF IsISOString(v.s) THEN DateV(StrToNum(SubSeq(v.s, 2, Len(v.s) - 1)))
        ELSE InvalidDate
    ELSE IF v.kind = "num" THEN DateV(v.n)
    ELSE IF v.kind = "null" THEN DateV(0)
    ELSE IF v.kind = "date" THEN DateV(v.n)
    ELSE InvalidDate

(***************************************************************************)
(* ascii85: an ASCII-safe text encoding of bytes and its inverse.          *)
(***************************************************************************)
ByteChars == <<"!", "#", "$", "%">>

RECURSIVE encodeBytes(_)
encodeBytes(b) ==
    IF Len(b) = 0 THEN <<>>
    ELSE <<ByteChars[Head(b) + 1]>> \o encodeBytes(Tail(b))

ascii85encode(b) == <<"<", "~">> \o encodeBytes(b) \o <<"~", ">">>

IsAscii85(s) ==
    /\ Len(s) >= 4
    /\ SubSeq(s, 1, 2) = <<"<", "~">>
    /\ SubSeq(s, Len(s) - 1, Len(s)) = <<"~", ">">>
    /\ \A i \in 3..(Len(s) - 2) : \E j \in 1..Len(ByteChars) : ByteChars[j] = s[i]

RECURSIVE decodeBytes(_)
decodeBytes(s) ==
    IF Len(s) = 0 THEN <<>>
    ELSE <<(CHOOSE j \in 1..Len(ByteChars) : ByteChars[j] = Head(s)) - 1>> \o decodeBytes(Tail(s))

ascii85decode(v) ==
    IF v.kind = "str" /\ IsAscii85(v.s)
    THEN ArrayBuffer(decodeBytes(SubSeq(v.s, 3, Len(v.s) - 2)))
    ELSE Threw

\* utils.cloneObject: a deep copy, the same value in a fresh object
cloneObject(obj) == obj

(***************************************************************************)
(* Transport envelope { map, val }.                                        *)
(*   mkind : "none" (map undefined), "tag" (a single type), "map"          *)
(*   entries : the keys of map in insertion order, <<path, type>>          *)
(***************************************************************************)
Envelope(mkind, tag, entries, val) ==
    [mkind |-> mkind, tag |-> tag, entries |-> entries, val |-> val]

\* mappings[path] = type: a new key goes last, an existing key keeps its place
MapSet(mappings, path, type) ==
    IF KeyIndex(mappings, path) = 0 THEN Append(mappings, <<path, type>>)
    ELSE [mappings EXCEPT ![KeyIndex(mappings, path)] = <<path, type>>]

ValueKey == <<"v", "a", "l", "u", "e">>
PathKey == <<"p", "a", "t", "h">>

\* new PathReference(val): wraps whatever it is given as its path
newPathReference(v) ==
    IF v.kind = "str" THEN PathReference(v.s)
    ELSE JsVal("ref", 0, <<>>, <<>>, <<<<PathKey, v>>>>)

(***************************************************************************)
(* serialize (transport.js 51-91)                                          *)
(***************************************************************************)
\* the path of a key under a prefix (transport.js 65)
childPath(prefix, key) ==
    IF Len(prefix) = 0 THEN key ELSE prefix \o <<"/">> \o key

\* process(obj, mappings, prefix): the Object.keys(obj).forEach loop from
\* the i-th key on; yields the rewritten properties and the mappings
RECURSIVE processFrom(_, _, _, _)
processFrom(kids, i, mappings, prefix) ==
    IF i > Len(kids) THEN [kids |-> kids, mappings |-> mappings]
    ELSE
        LET key == kids[i][1]
            val == kids[i][2]
            path == childPath(prefix, key)
        IN  IF val.kind = "date" THEN
                processFrom([kids EXCEPT ![i] = <<key, Str(toISOString(val.n))>>],
                            i + 1, MapSet(mappings, path, "date"), prefix)
            ELSE IF val.kind = "bin" THEN
                processFrom([kids EXCEPT ![i] = <<key, Str(ascii85encode(val.b))>>],
                            i + 1, MapSet(mappings, path, "binary"), prefix)
            ELSE IF val.kind = "ref" THEN
                processFrom([kids EXCEPT ![i] = <<key, Str(val.s)>>],
                            i + 1, MapSet(mappings, path, "reference"), prefix)
            ELSE IF IsContainer(val) THEN
                LET r == processFrom(val.kids, 1, mappings, path)
                IN  processFrom([kids EXCEPT ![i] = <<key, [val EXCEPT !.kids = r.kids]>>],
                                i + 1, r.mappings, prefix)
            ELSE processFrom(kids, i + 1, mappings, prefix)

process(obj, mappings, prefix) == processFrom(obj.kids, 1, mappings, prefix)

\* the composite branch (transport.js 61-90)
serializeComposite(obj) ==
    LET r == process(cloneObject(obj), <<>>, <<>>)
    IN  Envelope("map", "", r.mappings, [obj EXCEPT !.kids = r.kids])

\* the map entry for a path, "" when mappings has no such key
MapGet(mappings, path) ==
    IF KeyIndex(mappings, path) = 0 THEN ""
    ELSE mappings[KeyIndex(mappings, path)][2]

serialize(obj) ==
    IF ~IsContainer(obj) THEN
        LET ser == serializeComposite(Obj(<<<<ValueKey, obj>>>>))
            tag == MapGet(ser.entries, ValueKey)
        IN  Envelope(IF tag = "" THEN "none" ELSE "tag", tag, <<>>, ser.val.kids[1][2])
    ELSE serializeComposite(obj)

(***************************************************************************)
(* deserialize (transport.js 7-49)                                         *)
(***************************************************************************)
deserializeValue(type, val) ==
    IF type = "date" THEN newDate(val)
    ELSE IF type = "binary" THEN ascii85decode(val)
    ELSE IF type = "reference" THEN newPathReference(val)
    ELSE val

\* path.replace(/\[/g, "/[").split("/"), bracketed keys parsed as numbers
pathKeys(path) ==
    LET keys == split(replaceBracket(path))
    IN  [i \in 1..Len(keys) |->
            IF Len(keys[i]) > 0 /\ keys[i][1] = "["
            THEN parseIntKey(substr(keys[i], 1, Len(keys[i]) - 2))
            ELSE keys[i]]

\* val[key] for a val that is neither null nor undefined
GetProp(val, key) ==
    IF KeyIndex(val.kids, key) # 0 THEN val.kids[KeyIndex(val.kids, key)][2]
    ELSE IF val.kind = "ref" /\ key = PathKey THEN Str(val.s)
    ELSE IF val.kind = "str" /\ Len(key) > 0 /\ LeadingDigits(key) = key
            /\ NumToStr(StrToNum(key)) = key /\ StrToNum(key) < Len(val.s)
        THEN Str(<<val.s[StrToNum(key) + 1]>>)
    ELSE Undefined

\* parent[key] = x: ignored (sloppy mode) when parent is a primitive
PutProp(parent, key, x) ==
    IF parent.kind \in {"num", "str"} THEN parent
    ELSE IF KeyIndex(parent.kids, key) # 0
        THEN [parent EXCEPT !.kids[KeyIndex(parent.kids, key)] = <<key, x>>]
    ELSE [parent EXCEPT !.kids = Append(parent.kids, <<key, x>>)]

\* transport.js 37-45: walk keys down from val, then overwrite the slot;
\* yields val after the overwrite, or Threw
RECURSIVE assignAt(_, _, _)
assignAt(val, keys, type) ==
    IF val.kind \in {"undefined", "null"} THEN Threw
    ELSE
        LET key == Head(keys)
            child == GetProp(val, key)
        IN  IF Len(keys) = 1 THEN
                LET nv == deserializeValue(type, child)
                IN  IF nv = Threw THEN Threw ELSE PutProp(val, key, nv)
            ELSE
                LET r == assignAt(child, Tail(keys), type)
                IN  IF r = Threw THEN Threw
                    ELSE IF child.kind \in {"num", "str"} THEN val
                    ELSE PutProp(val, key, r)

\* Object.keys(data.map).forEach from the i-th entry on
RECURSIVE deserializeFrom(_, _, _)
deserializeFrom(val, entries, i) ==
    IF i > Len(entries) THEN val
    ELSE
        LET r == assignAt(val, pathKeys(entries[i][1]), entries[i][2])
        IN  IF r = Threw THEN Threw ELSE deserializeFrom(r, entries, i + 1)

deserialize(data) ==
    IF data.mkind = "none" THEN data.val
    ELSE IF data.mkind = "tag" THEN deserializeValue(data.tag, data.val)
    ELSE deserializeFrom(data.val, data.entries, 1)

(***************************************************************************)
(* Equality of values: same kind and payload, the same property names and  *)
(* equal values under each name (the order of an object's keys is not      *)
(* part of its value).                                                     *)
(***************************************************************************)
RECURSIVE Equiv(_, _)
Equiv(x, y) ==
    /\ x.kind = y.kind
    /\ x.n = y.n
    /\ x.s = y.s
    /\ x.b = y.b
    /\ KeySet(x.kids) = KeySet(y.kids)
    /\ Len(x.kids) = Len(y.kids)
    /\ \A i \in 1..Len(x.kids) :
          Equiv(x.kids[i][2], y.kids[KeyIndex(y.kids, x.kids[i][1])][2])

(***************************************************************************)
(* The values the codec is run on.                                         *)
(***************************************************************************)
KeyA == <<"a">>
KeyB == <<"b">>
KeyEmpty == <<>>
KeySlash == <<"a", "/", "b">>
KeyBracket == <<"[", "0", "]">>
PropertyNames == {KeyA, KeyB, KeyEmpty, KeySlash, KeyBracket}
PlainNames == {KeyA, KeyB}

Leaves ==
    {Num(1), Str(<<"a">>), Null, DateV(1), ArrayBuffer(<<0, 2>>),
     PathReference(<<"a", "/", "b">>)}

KeyPairs == {<<KeyA, KeyB>>, <<KeyA, KeySlash>>, <<KeySlash, KeyA>>}

RECURSIVE Values(_)
Values(d) ==
    IF d = 0 THEN Leaves
    ELSE
        LET sub == Values(d - 1)
        IN  Leaves
            \cup {Obj(<<<<k, v>>>>) : k \in PropertyNames, v \in sub}
            \cup {Obj(<<<<p[1], l>>, <<p[2], v>>>>) : p \in KeyPairs, l \in Leaves, v \in sub}
            \cup {Arr(<<<<NumToStr(0), v>>>>) : v \in sub}
            \cup {Arr(<<<<NumToStr(0), l>>, <<NumToStr(1), v>>>>) : l \in Leaves, v \in sub}

\* every property name, at any depth, is a plain name (or an array index)
RECURSIVE PlainKeys(_)
PlainKeys(v) ==
    \A i \in 1..Len(v.kids) :
        /\ v.kind = "obj" => v.kids[i][1] \in PlainNames
        /\ PlainKeys(v.kids[i][2])

(***************************************************************************)
(* The type-mapping collaborator (db.types): with no application class     *)
(* registered it is the primitive Date / binary / path-link handling.      *)
(***************************************************************************)
typesSerialize(path, value) == serialize(value)
typesDeserialize(path, value) == deserialize(value)

(***************************************************************************)
(* Paths of References.                                                    *)
(***************************************************************************)
RootPath == <<>>
NoParent == <<"null">>

\* the index of the last "/" or "[" of a path, 0 when it has none
RECURSIVE lastSeparator(_, _)
lastSeparator(path, i) ==
    IF i = 0 THEN 0
    ELSE IF path[i] \in {"/", "["} THEN i
    ELSE lastSeparator(path, i - 1)

\* getPathInfo(path).parent: null at the root, else what precedes the last key
parentPath(path) ==
    IF Len(path) = 0 THEN NoParent
    ELSE IF lastSeparator(path, Len(path)) = 0 THEN RootPath
    ELSE SubSeq(path, 1, lastSeparator(path, Len(path)) - 1)

(***************************************************************************)
(* State.                                                                  *)
(***************************************************************************)
VARIABLES
    cpc,      \* codec run: "start", "serialized", "done"
    cv,       \* the value handed to serialize
    cenv,     \* the envelope serialize returned
    cout,     \* what deserialize returned for that envelope
    wcalls,   \* writes: the backend calls issued so far, in order
    wacked,   \* writes: how many of wcalls the backend has acknowledged
    wstore,   \* writes: the backend's tree, the <<path, envelope>> it holds
    wlast,    \* writes: the last operation and how it ended
    wpush,    \* writes: the calls of push so far
    q,        \* query: the descriptor this[_private] of one DataReferenceQuery
    qsent,    \* query: the descriptors handed to backend query, in order
    qorders,  \* query: the order calls that returned, in call order
    qtake,    \* query: the argument of the last take call (-1: none yet)
    qn,       \* query: calls made so far
    qlast,    \* query: the last call and how it ended
    tstore,   \* transactions: the raw value the backend holds at the path
    tver,     \* transactions: how many times the backend changed that value
    ttx,      \* transactions: each transaction's position and what it read
    twrites,  \* transactions: writes of other clients so far
    tlast,    \* transactions: the last commit
    snode,    \* events: the value the backend holds at the Reference's path
    sreg,     \* events: every registration made by on, by id (cb objects)
    sregs,    \* events: this[_private].callbacks, the ids in list order
    ssubs,    \* events: the backend's subscriptions, [h, event]
    sflight,  \* events: events the backend has dispatched and not delivered
    sdeliv,   \* events: the calls of user callbacks so far, in order
    scalls,   \* events: the backend calls the Reference issued, in order
    sadds,    \* events: children added so far
    sops,     \* events: calls of on and off so far
    slast,    \* events: the last call of on / off and the state before it
    spub,     \* events: what the streams published so far, in order
    slive,    \* events: the last handler invocation, the state before and after
    serrd,    \* events: the handlers that were invoked with an error
    serrs,    \* events: events whose data the backend failed to get so far
    rpc,      \* query remove: "idle", "querying", "removing"
    rquery,   \* query remove: the options handed to backend query
    rrefs,    \* query remove: the matches backend query yielded
    rcalls,   \* query remove: the backend calls of the removals
    rout,     \* query remove: how each removal ended
    rorder,   \* query remove: the removals in the order they ended
    rprom,    \* query remove: the promise remove returned
    rstore    \* query remove: the nodes the backend holds

codecVars == <<cpc, cv, cenv, cout>>
writeVars == <<wcalls, wacked, wstore, wlast, wpush>>
queryVars == <<q, qsent, qorders, qtake, qn, qlast>>
txnVars == <<tstore, tver, ttx, twrites, tlast>>
subVars == <<snode, sreg, sregs, ssubs, sflight, sdeliv, scalls, sadds, sops, slast,
             spub, slive, serrd, serrs>>
rmVars == <<rpc, rquery, rrefs, rcalls, rout, rorder, rprom, rstore>>
vars == <<codecVars, writeVars, queryVars, txnVars, subVars, rmVars>>

NoEnvelope == Envelope("none", "", <<>>, Undefined)

(***************************************************************************)
(* The codec run on one value.                                             *)
(***************************************************************************)
OtherThanCodec == <<writeVars, queryVars, txnVars, subVars, rmVars>>

Serialize ==
    /\ cpc = "start"
    /\ cenv' = serialize(cv)
    /\ cpc' = "serialized"
    /\ UNCHANGED <<cv, cout>>
    /\ UNCHANGED OtherThanCodec

Deserialize ==
    /\ cpc = "serialized"
    /\ cout' = deserialize(cenv)
    /\ cpc' = "done"
    /\ UNCHANGED <<cv, cenv>>
    /\ UNCHANGED OtherThanCodec

CodecNext == Serialize \/ Deserialize

(***************************************************************************)
(* DataReference.set and DataReference.remove                              *)
(***************************************************************************)
ApiCall(api, path, val) == [api |-> api, path |-> path, val |-> val]

NoOp == [op |-> "none", path |-> RootPath, value |-> Undefined, threw |-> FALSE,
         before |-> <<>>]

\* set without the check for undefined
setCallStoresUndefined(path, value, calls) ==
    IF parentPath(path) = NoParent THEN [threw |-> TRUE, calls |-> calls]
    ELSE [threw |-> FALSE,
          calls |-> Append(calls, ApiCall("set", path, typesSerialize(path, value)))]

\* set without the check for the root
setCallAtRoot(path, value, calls) ==
    IF value.kind = "undefined" THEN [threw |-> TRUE, calls |-> calls]
    ELSE [threw |-> FALSE,
          calls |-> Append(calls, ApiCall("set", path, typesSerialize(path, value)))]

\* DataReference.set up to the backend call: what the call throws or issues
setCall(path, value, calls) ==
    IF parentPath(path) = NoParent THEN [threw |-> TRUE, calls |-> calls]
    ELSE IF value.kind = "undefined" THEN [threw |-> TRUE, calls |-> calls]
    ELSE [threw |-> FALSE,
          calls |-> Append(calls, ApiCall("set", path, typesSerialize(path, value)))]

\* DataReference.remove
removeCall(path, calls) ==
    IF parentPath(path) = NoParent THEN [threw |-> TRUE, calls |-> calls]
    ELSE setCall(path, Null, calls)

RefPaths == {RootPath, <<"a">>, <<"a", "/", "b">>}

WriteValues == {Undefined, Null, Num(1), DateV(1), Obj(<<<<KeyA, DateV(2)>>>>)}

OtherThanWrite == <<codecVars, queryVars, txnVars, subVars, rmVars>>

WriteOpsLeft == Len(wcalls) < MaxWriteOps

Set(path, value) ==
    /\ WriteOpsLeft
    /\ LET r == setCall(path, value, wcalls)
       IN  /\ wcalls' = r.calls
           /\ wlast' = [op |-> "set", path |-> path, value |-> value,
                        threw |-> r.threw, before |-> wcalls]
    /\ UNCHANGED <<wacked, wstore, wpush>>
    /\ UNCHANGED OtherThanWrite

Remove(path) ==
    /\ WriteOpsLeft
    /\ LET r == removeCall(path, wcalls)
       IN  /\ wcalls' = r.calls
           /\ wlast' = [op |-> "remove", path |-> path, value |-> Undefined,
                        threw |-> r.threw, before |-> wcalls]
    /\ UNCHANGED <<wacked, wstore, wpush>>
    /\ UNCHANGED OtherThanWrite

\* obj[key] = value for every property of an update, from the i-th on
RECURSIVE putAll(_, _, _)
putAll(val, kids, i) ==
    IF i > Len(kids) THEN val
    ELSE putAll(PutProp(val, kids[i][1], kids[i][2]), kids, i + 1)

\* backend update: the properties of updates written over those the node has
mergeUpdate(store, path, updates) ==
    LET old == IF KeyIndex(store, path) = 0 THEN Null
               ELSE typesDeserialize(path, MapGet(store, path))
        upd == typesDeserialize(path, updates)
    IN  IF upd.kind # "obj" THEN old
        ELSE IF old.kind # "obj" THEN upd
        ELSE putAll(old, upd.kids, 1)

\* the tree after the backend has performed a call
backendWrite(store, c) ==
    IF c.api = "update"
    THEN MapSet(store, c.path, typesSerialize(c.path, mergeUpdate(store, c.path, c.val)))
    ELSE MapSet(store, c.path, c.val)

\* the backend performs the oldest call not yet acknowledged; the promise of
\* that call resolves with the Reference it was made on
BackendAck ==
    /\ wacked < Len(wcalls)
    /\ LET c == wcalls[wacked + 1]
       IN  /\ wstore' = backendWrite(wstore, c)
           /\ wpush' = [i \in 1..Len(wpush) |->
                          IF wpush[i].call = wacked + 1
                          THEN [wpush[i] EXCEPT !.resolved = TRUE]
                          ELSE wpush[i]]
           /\ wlast' = [op |-> "resolved", path |-> c.path, value |-> Undefined,
                        threw |-> FALSE, before |-> wcalls]
    /\ wacked' = wacked + 1
    /\ UNCHANGED wcalls
    /\ UNCHANGED OtherThanWrite

WriteNext ==
    \/ \E path \in RefPaths, value \in WriteValues : Set(path, value)
    \/ \E path \in RefPaths : Remove(path)
    \/ BackendAck

(***************************************************************************)
(* DataReference.update, DataReference.push and DataReference.get          *)
(***************************************************************************)
\* path.replace(/^\/|\/$/g, "") in the constructor (part_001 33)
trimSlashes(path) ==
    LET from == IF Len(path) > 0 /\ path[1] = "/" THEN 2 ELSE 1
        to == IF Len(path) >= from /\ path[Len(path)] = "/" THEN Len(path) - 1 ELSE Len(path)
    IN  SubSeq(path, from, to)

\* this.child(childPath) (part_001 84-87)
child(path, key) == trimSlashes(path \o <<"/">> \o trimSlashes(key))

\* typeof updates !== "object" || updates instanceof Array ||
\* updates instanceof ArrayBuffer || updates instanceof Date (part_001 122)
updateGoesToSet(updates) ==
    \/ updates.kind \in {"undefined", "num", "str"}
    \/ updates.kind \in {"arr", "bin", "date"}

\* DataReference.update up to the backend call (part_001 117-127)
updateCall(path, updates, calls) ==
    IF updateGoesToSet(updates) THEN setCall(path, updates, calls)
    ELSE [threw |-> FALSE,
          calls |-> Append(calls, ApiCall("update", path, typesSerialize(path, updates)))]

\* the values update is called with
UpdateValues ==
    {Undefined, Null, Num(1), Str(<<"a">>), DateV(1), ArrayBuffer(<<0, 2>>),
     Arr(<<<<NumToStr(0), Num(1)>>>>), Obj(<<<<KeyA, DateV(2)>>>>),
     Obj(<<<<KeyA, Num(1)>>, <<KeyB, Null>>>>)}

Update(path, updates) ==
    /\ WriteOpsLeft
    /\ LET r == updateCall(path, updates, wcalls)
       IN  /\ wcalls' = r.calls
           /\ wlast' = [op |-> "update", path |-> path, value |-> updates,
                        threw |-> r.threw, before |-> wcalls]
    /\ UNCHANGED <<wacked, wstore, wpush>>
    /\ UNCHANGED OtherThanWrite

\* ID.generate(): the n-th key it hands out, each one new
generate(n) == <<"i", "d">> \o NumToStr(n)

\* push that does not wait for the set it issued
pushCallEager(path, value, calls, n) ==
    LET ref == child(path, generate(n))
    IN  IF value.kind # "undefined"
        THEN [ref |-> ref, waits |-> FALSE, threw |-> setCall(ref, value, calls).threw,
              calls |-> setCall(ref, value, calls).calls]
        ELSE [ref |-> ref, waits |-> FALSE, threw |-> FALSE, calls |-> calls]

\* DataReference.push (part_001 345-356): the child Reference, whether what
\* it returns waits for a set, and the backend calls after it
pushCall(path, value, calls, n) ==
    LET ref == child(path, generate(n))
    IN  IF value.kind # "undefined"
        THEN [ref |-> ref, waits |-> TRUE, threw |-> setCall(ref, value, calls).threw,
              calls |-> setCall(ref, value, calls).calls]
        ELSE [ref |-> ref, waits |-> FALSE, threw |-> FALSE, calls |-> calls]

\* the values push is called with
PushValues ==
    {Undefined, Null, Num(1), ArrayBuffer(<<0, 2>>),
     Obj(<<<<KeyA, DateV(2)>>, <<KeyB, Arr(<<<<NumToStr(0), Num(1)>>>>)>>>>)}

\* a push: its parent, the child Reference, the value, the index in wcalls
\* of the set it issued (0: none) and whether the Reference was handed to
\* the caller
Pushed(parent, ref, value, call, resolved) ==
    [parent |-> parent, ref |-> ref, value |-> value, call |-> call, resolved |-> resolved]

Push(path, value) ==
    /\ Len(wpush) < MaxPush
    /\ LET r == pushCall(path, value, wcalls, Len(wpush) + 1)
       IN  /\ wcalls' = r.calls
           /\ wpush' = Append(wpush, Pushed(path, r.ref, value,
                                            IF Len(r.calls) > Len(wcalls)
                                            THEN Len(r.calls) ELSE 0,
                                            ~r.waits))
           /\ wlast' = [op |-> "push", path |-> path, value |-> value,
                        threw |-> r.threw, before |-> wcalls]
    /\ UNCHANGED <<wacked, wstore>>
    /\ UNCHANGED OtherThanWrite

\* DataReference.get (part_001 292-295) on the tree the backend holds
getValue(path) == typesDeserialize(path, MapGet(wstore, path))

UpdateNext ==
    \/ \E path \in RefPaths, updates \in UpdateValues : Update(path, updates)
    \/ BackendAck

PushNext ==
    \/ \E path \in RefPaths, value \in PushValues : Push(path, value)
    \/ BackendAck

(***************************************************************************)
(* DataReferenceQuery                                                      *)
(***************************************************************************)
Compare(ckind, len) == [ckind |-> ckind, len |-> len]
CompareValues ==
    {Compare("array", 0), Compare("array", 1), Compare("array", 2),
     Compare("regexp", 0), Compare("function", 0), Compare("string", 0)}

Operators == {"in", "!in", "between", "!between", "matches", "!matches", "custom", "=="}

\* where whose between guard forgets the number of bounds
whereThrowsAnyArray(op, compare) ==
    \/ op \in {"in", "!in"} /\ (compare.ckind # "array" \/ compare.len = 0)
    \/ op \in {"between", "!between"} /\ compare.ckind # "array"
    \/ op \in {"matches", "!matches"} /\ compare.ckind # "regexp"
    \/ op = "custom" /\ compare.ckind # "function"

\* the four guards of where: TRUE when where throws
whereThrows(op, compare) ==
    \/ op \in {"in", "!in"} /\ (compare.ckind # "array" \/ compare.len = 0)
    \/ op \in {"between", "!between"} /\ (compare.ckind # "array" \/ compare.len # 2)
    \/ op \in {"matches", "!matches"} /\ compare.ckind # "regexp"
    \/ op = "custom" /\ compare.ckind # "function"

\* the descriptor after where(key, op, compare)
whereCall(d, key, op, compare) ==
    IF whereThrows(op, compare) THEN d
    ELSE [d EXCEPT !.filters = Append(@, [key |-> key, op |-> op, compare |-> compare])]

takeCall(d, nr) == [d EXCEPT !.take = nr]

skipCall(d, nr) == [d EXCEPT !.skip = nr]

\* order(key, ascending = true); key is [str |-> is it a string, name]
orderThrows(key) == ~key.str

\* order that puts the new sort key first
orderCallUnshift(d, key, ascending) ==
    IF orderThrows(key) THEN d
    ELSE [d EXCEPT !.order = <<[key |-> key.name, ascending |-> ascending]>> \o @]

orderCall(d, key, ascending) ==
    IF orderThrows(key) THEN d
    ELSE [d EXCEPT !.order = Append(@, [key |-> key.name, ascending |-> ascending])]

\* the ascending parameter with its default
ascendingArg(a) == IF a = "default" THEN TRUE ELSE a = "true"

EmptyQuery == [filters |-> <<>>, skip |-> 0, take |-> 0, order |-> <<>>]

NoCall == [op |-> "none", threw |-> FALSE, before |-> EmptyQuery, a |-> "", c |-> Compare("string", 0),
           nr |-> 0]

OrderKeys == {[str |-> TRUE, name |-> "k1"], [str |-> TRUE, name |-> "k2"],
              [str |-> FALSE, name |-> "7"]}
AscendingArgs == {"true", "false", "default"}
Counts == {0, 1, 2}

OtherThanQuery == <<codecVars, writeVars, txnVars, subVars, rmVars>>

\* one more call of the query's methods
QueryCall ==
    /\ qn < MaxBuilderCalls
    /\ qn' = qn + 1
    /\ UNCHANGED OtherThanQuery

Where(op, compare) ==
    /\ QueryCall
    /\ Len(q.filters) < MaxFilters
    /\ q' = whereCall(q, "x", op, compare)
    /\ qlast' = [op |-> "where", threw |-> whereThrows(op, compare), before |-> q,
                 a |-> op, c |-> compare, nr |-> 0]
    /\ UNCHANGED <<qsent, qorders, qtake>>

Take(nr) ==
    /\ QueryCall
    /\ q' = takeCall(q, nr)
    /\ qtake' = nr
    /\ qlast' = [NoCall EXCEPT !.op = "take", !.before = q, !.nr = nr]
    /\ UNCHANGED <<qsent, qorders>>

Skip(nr) ==
    /\ QueryCall
    /\ q' = skipCall(q, nr)
    /\ qlast' = [NoCall EXCEPT !.op = "skip", !.before = q, !.nr = nr]
    /\ UNCHANGED <<qsent, qorders, qtake>>

Order(key, a) ==
    /\ QueryCall
    /\ q' = orderCall(q, key, ascendingArg(a))
    /\ qorders' = IF orderThrows(key) THEN qorders
                  ELSE Append(qorders, <<key.name, ascendingArg(a)>>)
    /\ qlast' = [NoCall EXCEPT !.op = "order", !.threw = orderThrows(key), !.before = q]
    /\ UNCHANGED <<qsent, qtake>>

\* DataReferenceQuery.get: hands the descriptor to backend query
QueryGet ==
    /\ QueryCall
    /\ qsent' = Append(qsent, q)
    /\ qlast' = [NoCall EXCEPT !.op = "get", !.before = q]
    /\ UNCHANGED <<q, qorders, qtake>>

QueryNext ==
    \/ \E op \in Operators, compare \in CompareValues : Where(op, compare)
    \/ \E nr \in Counts : Take(nr)
    \/ \E nr \in Counts : Skip(nr)
    \/ \E key \in OrderKeys, a \in AscendingArgs : Order(key, a)
    \/ QueryGet

\* the numbers take and skip are called with
PageArgs == {-1, 0, 1}

PageNext ==
    \/ \E op \in Operators, compare \in CompareValues : Where(op, compare)
    \/ \E nr \in PageArgs : Take(nr)
    \/ \E nr \in PageArgs : Skip(nr)
    \/ \E key \in OrderKeys, a \in AscendingArgs : Order(key, a)
    \/ QueryGet

(***************************************************************************)
(* DataReferenceQuery.remove                                               *)
(***************************************************************************)
\* the paths of the nodes under the query's Reference
MatchPath(i) == <<"n", "/">> \o NumToStr(i)
Nodes == {MatchPath(i) : i \in 1..(MaxMatches + 1)}

\* the results backend query may yield: at most MaxMatches distinct paths
MatchLists ==
    {m \in UNION {[1..n -> Nodes] : n \in 0..MaxMatches} :
        \A i, j \in 1..Len(m) : i # j => m[i] # m[j]}

\* the options DataReferenceQuery.get hands to backend query (part_001
\* 443-448)
getOptions(options) ==
    IF "snapshots" \in DOMAIN options THEN options ELSE [snapshots |-> TRUE]

\* no query issued yet
NoOptions == <<>>

\* refs.map(ref => ref.remove()) from the i-th Reference on
RECURSIVE removeFrom(_, _, _)
removeFrom(refs, i, r) ==
    IF i > Len(refs) \/ r.threw THEN r
    ELSE removeFrom(refs, i + 1, removeCall(refs[i], r.calls))

\* a remove of the matches that stops after the first Reference
removeAllFirstOnly(refs, calls) ==
    IF Len(refs) = 0 THEN [threw |-> FALSE, calls |-> calls]
    ELSE removeCall(refs[1], calls)

\* refs.map(ref => ref.remove()) (part_001 471): one remove per match, all
\* issued before any of them has completed
removeAll(refs, calls) == removeFrom(refs, 1, [threw |-> FALSE, calls |-> calls])

NoResult == [state |-> "pending", reason |-> 0]

\* Promise.all over the removals (part_001 471) after removal i has settled
\* with outcome o
promiseAll(prom, out, i, o) ==
    IF prom.state # "pending" THEN prom
    ELSE IF o = "failed" THEN [state |-> "rejected", reason |-> i]
    ELSE IF \A j \in 1..Len(out) : j # i => out[j] = "ok"
         THEN [state |-> "resolved", reason |-> 0]
    ELSE prom

OtherThanQRemove == <<codecVars, writeVars, queryVars, txnVars, subVars>>

\* DataReferenceQuery.remove: this.get({ snapshots: false })
QueryRemove ==
    /\ rpc = "idle"
    /\ rpc' = "querying"
    /\ rquery' = getOptions([snapshots |-> FALSE])
    /\ UNCHANGED <<rrefs, rcalls, rout, rorder, rprom, rstore>>
    /\ UNCHANGED OtherThanQRemove

\* backend query resolves with the matches and the then of remove runs
BackendQueryResult(matches) ==
    /\ rpc = "querying"
    /\ rpc' = "removing"
    /\ rrefs' = matches
    /\ LET r == removeAll(matches, rcalls)
       IN  /\ rcalls' = r.calls
           /\ rout' = [i \in 1..Len(r.calls) |-> "pending"]
           /\ rprom' = IF r.threw THEN [state |-> "rejected", reason |-> 0]
                       ELSE IF Len(matches) = 0 THEN [state |-> "resolved", reason |-> 0]
                       ELSE NoResult
    /\ UNCHANGED <<rquery, rorder, rstore>>
    /\ UNCHANGED OtherThanQRemove

\* the backend performs the set of removal i
BackendSetAck(i) ==
    /\ rpc = "removing"
    /\ i \in 1..Len(rout)
    /\ rout[i] = "pending"
    /\ rout' = [rout EXCEPT ![i] = "ok"]
    /\ rorder' = Append(rorder, i)
    /\ rstore' = rstore \ {rcalls[i].path}
    /\ rprom' = promiseAll(rprom, rout, i, "ok")
    /\ UNCHANGED <<rpc, rquery, rrefs, rcalls>>
    /\ UNCHANGED OtherThanQRemove

\* the backend fails the set of removal i
BackendSetFail(i) ==
    /\ rpc = "removing"
    /\ i \in 1..Len(rout)
    /\ rout[i] = "pending"
    /\ rout' = [rout EXCEPT ![i] = "failed"]
    /\ rorder' = Append(rorder, i)
    /\ rprom' = promiseAll(rprom, rout, i, "failed")
    /\ UNCHANGED <<rpc, rquery, rrefs, rcalls, rstore>>
    /\ UNCHANGED OtherThanQRemove

QRemoveNext ==
    \/ QueryRemove
    \/ \E matches \in MatchLists : BackendQueryResult(matches)
    \/ \E i \in 1..MaxMatches : BackendSetAck(i)
    \/ \E i \in 1..MaxMatches : BackendSetFail(i)

(***************************************************************************)
(* DataReference.transaction                                               *)
(***************************************************************************)
TxnPath == <<"a">>
Txns == 1..MaxTxns
\* the callbacks passed: tick returns its new value, wrap returns a promise
\* of it
Updaters == {"tick", "wrap"}
returnsPromise(u) == u = "wrap"

\* the new value the callback computes from the snapshot's value
applyUpdater(u, v) ==
    IF u = "tick" THEN (IF v.kind = "date" THEN DateV(v.n + 1) ELSE DateV(0))
    ELSE Obj(<<<<KeyA, v>>>>)

\* cb that serializes the value it was handed instead of the new value
transactionCbStale(path, u, currentValue) ==
    typesSerialize(path, typesDeserialize(path, currentValue))

\* cb of transaction (part_001 134-146): what it returns, directly or as
\* the value of the promise it returns
transactionCb(path, u, currentValue) ==
    typesSerialize(path, applyUpdater(u, typesDeserialize(path, currentValue)))

NoTx == [pc |-> "idle", upd |-> "tick", readVer |-> 0,
         result |-> NoEnvelope, calls |-> 0]

NoCommit == [op |-> "none", t |-> 0, upd |-> "tick", before |-> NoEnvelope,
             after |-> NoEnvelope]

OtherThanTxn == <<codecVars, writeVars, queryVars, subVars, rmVars>>

\* transaction(callback): hands cb to backend transaction
Transaction(t, u) ==
    /\ ttx[t].pc = "idle"
    /\ ttx' = [ttx EXCEPT ![t] = [NoTx EXCEPT !.pc = "started", !.upd = u]]
    /\ UNCHANGED <<tstore, tver, twrites, tlast>>
    /\ UNCHANGED OtherThanTxn

\* the backend reads the path and invokes cb with the raw value
BackendInvoke(t) ==
    /\ ttx[t].pc = "started"
    /\ ttx' = [ttx EXCEPT ![t].pc = IF returnsPromise(ttx[t].upd) THEN "awaiting" ELSE "ready",
                          ![t].readVer = tver,
                          ![t].result = transactionCb(TxnPath, ttx[t].upd, tstore),
                          ![t].calls = @ + 1]
    /\ UNCHANGED <<tstore, tver, twrites, tlast>>
    /\ UNCHANGED OtherThanTxn

\* the promise the updater returned resolves
UpdaterResolves(t) ==
    /\ ttx[t].pc = "awaiting"
    /\ ttx' = [ttx EXCEPT ![t].pc = "ready"]
    /\ UNCHANGED <<tstore, tver, twrites, tlast>>
    /\ UNCHANGED OtherThanTxn

\* the backend commits if the path is as it was read; the promise of
\* transaction then resolves with the Reference
BackendCommit(t) ==
    /\ ttx[t].pc = "ready"
    /\ ttx[t].readVer = tver
    /\ tstore' = ttx[t].result
    /\ tver' = tver + 1
    /\ ttx' = [ttx EXCEPT ![t].pc = "done"]
    /\ tlast' = [op |-> "commit", t |-> t, upd |-> ttx[t].upd, before |-> tstore,
                 after |-> ttx[t].result]
    /\ UNCHANGED twrites
    /\ UNCHANGED OtherThanTxn

\* the path changed since the read: the backend invokes cb again
BackendRetry(t) ==
    /\ ttx[t].pc = "ready"
    /\ ttx[t].readVer # tver
    /\ ttx' = [ttx EXCEPT ![t].pc = "started"]
    /\ UNCHANGED <<tstore, tver, twrites, tlast>>
    /\ UNCHANGED OtherThanTxn

\* another client sets the path
OtherWrite(v) ==
    /\ twrites < MaxOtherWrites
    /\ twrites' = twrites + 1
    /\ tstore' = typesSerialize(TxnPath, v)
    /\ tver' = tver + 1
    /\ UNCHANGED <<ttx, tlast>>
    /\ UNCHANGED OtherThanTxn

TxnNext ==
    \/ \E t \in Txns, u \in Updaters : Transaction(t, u)
    \/ \E t \in Txns : BackendInvoke(t)
    \/ \E t \in Txns : UpdaterResolves(t)
    \/ \E t \in Txns : BackendCommit(t)
    \/ \E t \in Txns : BackendRetry(t)
    \/ \E v \in {DateV(5)} : OtherWrite(v)

(***************************************************************************)
(* DataReference.on, DataReference.off and the delivery of events          *)
(***************************************************************************)
NodePath == <<"n">>
ChildKey(i) == <<"k">> \o NumToStr(i)
OneChild == Obj(<<<<ChildKey(1), Num(1)>>>>)
TwoChildren == Obj(<<<<ChildKey(1), Num(1)>>, <<ChildKey(2), Num(2)>>>>)
Scalar == Num(7)
\* what the node can hold when the Reference is created
InitialNodes == {Null, Scalar, OneChild, TwoChildren}

\* this.child(key).path (part_001 84-87)
childRefPath(path, key) == path \o <<"/">> \o key

Events == {"value", "child_added"}
Callbacks == {"f", "g"}
\* the callback once hands to on (part_001 312-315)
OnceCallback == "once"
\* a DataSnapshot handed to off where a callback is expected (part_001 313)
SnapArg == "snap"
NoCallback == "undefined"
\* typeof callback === 'function'
IsFunction(c) == c \in Callbacks \cup {OnceCallback}
\* if (callback)
IsTruthy(c) == c # NoCallback
NoEvent == "undefined"

Sub(h, event) == [h |-> h, event |-> event]
RefCall(api, event, h) == [api |-> api, event |-> event, h |-> h]
Delivery(id, kind, path, val) == [id |-> id, kind |-> kind, path |-> path, val |-> val]
LiveEvent(h, err, path, newValue, oldValue) ==
    [h |-> h, err |-> err, path |-> path, newValue |-> newValue, oldValue |-> oldValue]

\* the promise of once: not one, pending, or resolved with a snapshot
NoPromise == [state |-> "none", kind |-> "", path |-> <<>>, val |-> Undefined]
Pending == [state |-> "pending", kind |-> "", path |-> <<>>, val |-> Undefined]
Resolved(kind, path, val) == [state |-> "resolved", kind |-> kind, path |-> path, val |-> val]

NoSubOp == [op |-> "none", event |-> NoEvent, cb |-> NoCallback, regs |-> <<>>,
            reg |-> <<>>, subs |-> {}, calls |-> <<>>]

OtherThanSub == <<codecVars, writeVars, queryVars, txnVars, rmVars>>

\* the Reference's registrations, the backend's subscriptions and what has
\* been called and published so far, as one record the steps of a handler
\* go through
St == [reg |-> sreg, regs |-> sregs, subs |-> ssubs, calls |-> scalls,
       deliv |-> sdeliv, pub |-> spub]

\* backend unsubscribe(ref, event, handler): drops the subscriptions of that
\* event (of every event when none is given) with that handler (with any
\* handler when none is given, h = 0)
unsubscribe(subs, event, h) ==
    {s \in subs : ~((event = NoEvent \/ s.event = event) /\ (h = 0 \/ s.h = h))}

\* Array.prototype.indexOf, counted from 0, -1 when absent
RECURSIVE indexOfFrom(_, _, _)
indexOfFrom(list, x, i) ==
    IF i > Len(list) THEN -1
    ELSE IF list[i] = x THEN i - 1
    ELSE indexOfFrom(list, x, i + 1)

indexOf(list, x) == indexOfFrom(list, x, 1)

\* list.splice(index, 1): a negative index counts from the end
spliceOne(list, index) ==
    LET at == IF index < 0 THEN (IF Len(list) + index < 0 THEN 0 ELSE Len(list) + index)
              ELSE index
    IN  IF at >= Len(list) THEN list
        ELSE SubSeq(list, 1, at) \o SubSeq(list, at + 2, Len(list))

\* callbacks.find(cb => cb.original === callback): the id, 0 when none
RECURSIVE findOriginalFrom(_, _, _)
findOriginalFrom(list, callback, i) ==
    IF i > Len(list) THEN 0
    ELSE IF sreg[list[i]].original = callback THEN list[i]
    ELSE findOriginalFrom(list, callback, i + 1)

findOriginal(list, callback) == findOriginalFrom(list, callback, 1)

\* on that issues the read of the replay before it subscribes
onCallGetFirst(event, callback) ==
    LET id == Len(sreg) + 1
        immediate == IsTruthy(callback) /\ event \in {"value", "child_added"}
    IN  [reg |-> Append(sreg, [event |-> event, original |-> callback,
                               stream |-> "running", listeners |-> 0, since |-> sadds,
                               promise |-> IF callback = OnceCallback THEN Pending
                                           ELSE NoPromise,
                               replay |-> IF immediate THEN "issued" ELSE "none",
                               reads |-> IF immediate THEN {typesSerialize(NodePath, snode)}
                                         ELSE {},
                               read |-> NoEnvelope]),
         regs |-> Append(sregs, id),
         subs |-> ssubs \cup {Sub(id, event)},
         calls |-> scalls \o (IF immediate THEN <<RefCall("get", "value", id)>> ELSE <<>>)
                          \o <<RefCall("subscribe", event, id)>>]

\* on(event, callback) up to its return (part_001 163-217): the cb object
\* pushed, the backend subscribe, and the read once("value") issues
onCall(event, callback) ==
    LET id == Len(sreg) + 1
        immediate == IsTruthy(callback) /\ event \in {"value", "child_added"}
    IN  [reg |-> Append(sreg, [event |-> event, original |-> callback,
                               stream |-> "running", listeners |-> 0, since |-> sadds,
                               promise |-> IF callback = OnceCallback THEN Pending
                                           ELSE NoPromise,
                               replay |-> IF immediate THEN "issued" ELSE "none",
                               reads |-> IF immediate THEN {typesSerialize(NodePath, snode)}
                                         ELSE {},
                               read |-> NoEnvelope]),
         regs |-> Append(sregs, id),
         subs |-> ssubs \cup {Sub(id, event)},
         calls |-> scalls \o <<RefCall("subscribe", event, id)>>
                          \o (IF immediate THEN <<RefCall("get", "value", id)>> ELSE <<>>)]

\* off(event, callback) (part_001 225-244) run on the state st
offIn(st, event, callback) ==
    IF IsTruthy(callback) THEN
        LET id == findOriginal(st.regs, callback)
        IN  IF id = 0 THEN st
            ELSE [st EXCEPT !.reg = [@ EXCEPT ![id].stream = "stopped"],
                            !.regs = spliceOne(@, indexOf(@, id)),
                            !.subs = unsubscribe(@, event, id),
                            !.calls = Append(@, RefCall("unsubscribe", event, id))]
    ELSE
        [st EXCEPT !.reg = [i \in 1..Len(st.reg) |->
                              IF indexOf(st.regs, i) >= 0
                              THEN [st.reg[i] EXCEPT !.stream = "stopped"]
                              ELSE st.reg[i]],
                   !.regs = <<>>,
                   !.subs = unsubscribe(@, event, 0),
                   !.calls = Append(@, RefCall("unsubscribe", event, 0))]

\* off that goes on to unsubscribe when it finds no registration
offCallNoReturn(event, callback) ==
    LET id == findOriginal(sregs, callback)
    IN  [reg |-> sreg,
         regs |-> IF id = 0 THEN sregs ELSE spliceOne(sregs, indexOf(sregs, id)),
         subs |-> unsubscribe(ssubs, event, id),
         calls |-> Append(scalls, RefCall("unsubscribe", event, id))]

\* off(event, callback) called by the user
offCall(event, callback) ==
    LET r == offIn(St, event, callback)
    IN  [reg |-> r.reg, regs |-> r.regs, subs |-> r.subs, calls |-> r.calls]

\* callback(snap) (part_001 179, 201, 211); the callback of once calls
\* this.off(event, snap) and resolves its promise (part_001 312-315)
invokeCallback(st, id, kind, path, val) ==
    LET s1 == [st EXCEPT !.deliv = Append(@, Delivery(id, kind, path, val))]
    IN  IF sreg[id].original # OnceCallback THEN s1
        ELSE LET s2 == offIn(s1, sreg[id].event, SnapArg)
             IN  [s2 EXCEPT !.reg[id].promise =
                      IF @.state = "pending" THEN Resolved(kind, path, val) ELSE @]

\* eventStream.publish(snap): the stream hands snap to its subscribers
publish(st, id, kind, path, val) ==
    [st EXCEPT !.pub = Append(@, Delivery(id, kind, path, val))]

\* what eventStream.publish returns: whether the stream still has a subscriber
publishKeeps(st, id) == st.reg[id].stream = "running" /\ st.reg[id].listeners > 0

\* the handler that calls the callback for an error as for an event
oursInErrorDelivers(st, e) ==
    LET id == e.h
        val == typesDeserialize(e.path, e.newValue)
    IN  publish(invokeCallback(st, id, "live", e.path, val), id, "live", e.path, val)

\* the handler that unsubscribes whenever the stream has no subscriber
oursInAlwaysUnsub(st, e) ==
    LET id == e.h
        event == sreg[id].event
        val == typesDeserialize(e.path, e.newValue)
        s1 == IF IsFunction(sreg[id].original)
              THEN invokeCallback(st, id, "live", e.path, val) ELSE st
        s2 == publish(s1, id, "live", e.path, val)
    IN  IF e.err THEN st
        ELSE IF ~publishKeeps(s1, id)
        THEN [s2 EXCEPT !.regs = spliceOne(@, indexOf(@, id)),
                        !.subs = unsubscribe(@, event, id),
                        !.calls = Append(@, RefCall("unsubscribe", event, id))]
        ELSE s2

\* cb.ours (part_001 170-187) run on the state st for one dispatched event
oursIn(st, e) ==
    LET id == e.h
        event == sreg[id].event
        val == typesDeserialize(e.path, IF event = "child_removed" THEN e.oldValue
                                        ELSE e.newValue)
        useCallback == IsFunction(sreg[id].original)
        s1 == IF useCallback THEN invokeCallback(st, id, "live", e.path, val) ELSE st
        s2 == publish(s1, id, "live", e.path, val)
        keep == publishKeeps(s1, id)
    IN  IF e.err THEN st
        ELSE IF ~keep /\ ~useCallback
        THEN [s2 EXCEPT !.regs = spliceOne(@, indexOf(@, id)),
                        !.subs = unsubscribe(@, event, id),
                        !.calls = Append(@, RefCall("unsubscribe", event, id))]
        ELSE s2

oursCall(e) == oursIn(St, e)

\* the then of once("value") for "value" (part_001 199-202)
valueReplay(id, val) ==
    LET s1 == publish(St, id, "synthetic", NodePath, val)
    IN  IF IsFunction(sreg[id].original)
        THEN invokeCallback(s1, id, "synthetic", NodePath, val)
        ELSE s1

\* Object.keys(val).forEach (part_001 208-212) from the i-th key on
RECURSIVE childAddedFrom(_, _, _, _)
childAddedFrom(st, id, val, i) ==
    IF i > Len(val.kids) THEN st
    ELSE LET path == childRefPath(NodePath, val.kids[i][1])
             s1 == publish(st, id, "synthetic", path, val.kids[i][2])
             s2 == IF IsFunction(sreg[id].original)
                   THEN invokeCallback(s1, id, "synthetic", path, val.kids[i][2])
                   ELSE s1
         IN  childAddedFrom(s2, id, val, i + 1)

\* the then of once("value") for "child_added" (part_001 205-213), for a val
\* whose keys can be listed
childAddedReplay(id, val) ==
    IF val.kind \notin {"obj", "arr", "date", "bin", "ref"} THEN St
    ELSE childAddedFrom(St, id, val, 1)

On(event, callback) ==
    /\ sops < MaxCalls
    /\ sops' = sops + 1
    /\ LET r == onCall(event, callback)
       IN  /\ sreg' = r.reg
           /\ sregs' = r.regs
           /\ ssubs' = r.subs
           /\ scalls' = r.calls
    /\ slast' = [op |-> "on", event |-> event, cb |-> callback, regs |-> sregs,
                 reg |-> sreg, subs |-> ssubs, calls |-> scalls]
    /\ UNCHANGED <<snode, sflight, sdeliv, sadds, spub, slive, serrd, serrs>>
    /\ UNCHANGED OtherThanSub

\* once(event) for an event other than "value" (part_001 310-318)
Once(event) ==
    /\ event # "value"
    /\ sops < MaxCalls
    /\ sops' = sops + 1
    /\ LET r == onCall(event, OnceCallback)
       IN  /\ sreg' = r.reg
           /\ sregs' = r.regs
           /\ ssubs' = r.subs
           /\ scalls' = r.calls
    /\ slast' = [op |-> "once", event |-> event, cb |-> OnceCallback, regs |-> sregs,
                 reg |-> sreg, subs |-> ssubs, calls |-> scalls]
    /\ UNCHANGED <<snode, sflight, sdeliv, sadds, spub, slive, serrd, serrs>>
    /\ UNCHANGED OtherThanSub

Off(event, callback) ==
    /\ sops < MaxCalls
    /\ sops' = sops + 1
    /\ LET r == offCall(event, callback)
       IN  /\ sreg' = r.reg
           /\ sregs' = r.regs
           /\ ssubs' = r.subs
           /\ scalls' = r.calls
    /\ slast' = [op |-> "off", event |-> event, cb |-> callback, regs |-> sregs,
                 reg |-> sreg, subs |-> ssubs, calls |-> scalls]
    /\ UNCHANGED <<snode, sflight, sdeliv, sadds, spub, slive, serrd, serrs>>
    /\ UNCHANGED OtherThanSub

\* on(event, callback).subscribe(...): the user subscribes to the stream
\* that on returns
OnSubscribe(event, callback) ==
    /\ sops < MaxCalls
    /\ sops' = sops + 1
    /\ LET r == onCall(event, callback)
       IN  /\ sreg' = [r.reg EXCEPT ![Len(r.reg)].listeners = 1]
           /\ sregs' = r.regs
           /\ ssubs' = r.subs
           /\ scalls' = r.calls
    /\ slast' = [op |-> "on", event |-> event, cb |-> callback, regs |-> sregs,
                 reg |-> sreg, subs |-> ssubs, calls |-> scalls]
    /\ UNCHANGED <<snode, sflight, sdeliv, sadds, spub, slive, serrd, serrs>>
    /\ UNCHANGED OtherThanSub

\* the events the backend dispatches for a child added to the node, one
\* for each subscription, in the order of the handlers
RECURSIVE dispatchFrom(_, _, _, _, _)
dispatchFrom(h, key, childVal, newNode, oldNode) ==
    IF h > Len(sreg) THEN <<>>
    ELSE (IF Sub(h, "value") \in ssubs
          THEN <<LiveEvent(h, FALSE, NodePath, typesSerialize(NodePath, newNode),
                           typesSerialize(NodePath, oldNode))>>
          ELSE IF Sub(h, "child_added") \in ssubs
          THEN <<LiveEvent(h, FALSE, childRefPath(NodePath, key),
                           typesSerialize(NodePath, childVal),
                           typesSerialize(NodePath, Null))>>
          ELSE <<>>)
         \o dispatchFrom(h + 1, key, childVal, newNode, oldNode)

\* a client adds a child to the node; the backend dispatches the events
BackendAddChild ==
    /\ sadds < MaxAdds
    /\ sadds' = sadds + 1
    /\ LET key == ChildKey(3 + sadds)
           childVal == Num(3 + sadds)
           newNode == IF snode.kind = "obj"
                      THEN [snode EXCEPT !.kids = Append(@, <<key, childVal>>)]
                      ELSE Obj(<<<<key, childVal>>>>)
       IN  /\ snode' = newNode
           /\ sflight' = sflight \o dispatchFrom(1, key, childVal, newNode, snode)
           /\ sreg' = [i \in 1..Len(sreg) |->
                         IF sreg[i].replay = "issued"
                         THEN [sreg[i] EXCEPT !.reads = @ \cup {typesSerialize(NodePath, newNode)}]
                         ELSE sreg[i]]
    /\ UNCHANGED <<sregs, ssubs, sdeliv, scalls, sops, slast, spub, slive, serrd, serrs>>
    /\ UNCHANGED OtherThanSub

\* the error the backend dispatches to each subscription when it cannot
\* get the data of an event
RECURSIVE dispatchErrorFrom(_)
dispatchErrorFrom(h) ==
    IF h > Len(sreg) THEN <<>>
    ELSE (IF \E s \in ssubs : s.h = h
          THEN <<LiveEvent(h, TRUE, NodePath, NoEnvelope, NoEnvelope)>>
          ELSE <<>>)
         \o dispatchErrorFrom(h + 1)

\* the backend fails to get the data of an event and dispatches the error
\* to the handlers
BackendError ==
    /\ serrs < MaxErrors
    /\ ssubs # {}
    /\ serrs' = serrs + 1
    /\ sflight' = sflight \o dispatchErrorFrom(1)
    /\ UNCHANGED <<snode, sreg, sregs, ssubs, sdeliv, scalls, sadds, sops, slast, spub,
                   slive, serrd>>
    /\ UNCHANGED OtherThanSub

EmptySt == [reg |-> <<>>, regs |-> <<>>, subs |-> {}, calls |-> <<>>, deliv |-> <<>>,
            pub |-> <<>>]
NoLive == [e |-> LiveEvent(0, FALSE, <<>>, NoEnvelope, NoEnvelope), pre |-> EmptySt,
           post |-> EmptySt]

\* the backend invokes the handler of its oldest dispatched event
DeliverLive ==
    /\ Len(sflight) > 0
    /\ LET e == Head(sflight)
           r == oursCall(e)
       IN  /\ sreg' = r.reg
           /\ sregs' = r.regs
           /\ ssubs' = r.subs
           /\ scalls' = r.calls
           /\ sdeliv' = r.deliv
           /\ spub' = r.pub
           /\ slive' = [e |-> e, pre |-> St, post |-> r]
           /\ serrd' = IF e.err THEN serrd \cup {e.h} ELSE serrd
    /\ sflight' = Tail(sflight)
    /\ UNCHANGED <<snode, sadds, sops, slast, serrs>>
    /\ UNCHANGED OtherThanSub

\* the get of a replay resolves with a value the node held at some moment
\* since the get was issued, and the then of on runs (part_001 292-295,
\* 199-202, 205-213)
ReplayDeliver(id, raw) ==
    /\ sreg[id].replay = "issued"
    /\ raw \in sreg[id].reads
    /\ LET val == typesDeserialize(NodePath, raw)
           r == IF sreg[id].event = "value" THEN valueReplay(id, val)
                ELSE IF val.kind = "null" THEN St
                ELSE childAddedReplay(id, val)
           \* Object.keys(null) throws inside the then
           threw == sreg[id].event # "value" /\ val.kind = "null"
       IN  /\ sreg' = [r.reg EXCEPT ![id].replay = IF threw THEN "threw" ELSE "done",
                                    ![id].read = raw]
           /\ sregs' = r.regs
           /\ ssubs' = r.subs
           /\ scalls' = r.calls
           /\ sdeliv' = r.deliv
           /\ spub' = r.pub
    /\ UNCHANGED <<snode, sflight, sadds, sops, slast, slive, serrd, serrs>>
    /\ UNCHANGED OtherThanSub

\* on and off while no client writes to the node
OffNext ==
    \/ \E event \in Events, callback \in Callbacks : On(event, callback)
    \/ \E event \in Events, callback \in Callbacks \cup {NoCallback} : Off(event, callback)
    \/ \E id \in 1..Len(sreg) : \E raw \in sreg[id].reads : ReplayDeliver(id, raw)

\* registrations, writes to the node and the delivery of their events
SubNext ==
    \/ \E event \in Events, callback \in Callbacks :
          Len(sreg) < MaxOn /\ On(event, callback)
    \/ \E event \in Events : Len(sreg) < MaxOn /\ Once(event)
    \/ BackendAddChild
    \/ DeliverLive
    \/ \E id \in 1..Len(sreg) : \E raw \in sreg[id].reads : ReplayDeliver(id, raw)

\* the registrations made where handlers unsubscribe themselves
EvtOns == {<<"child_added", NoCallback>>, <<"value", "f">>}

\* registrations without a callback and with one, streams with and without a
\* subscriber, and the delivery of events and errors
LiveNext ==
    \/ \E event \in Events, callback \in {NoCallback, "f"} :
          Len(sreg) < MaxOn /\ On(event, callback)
    \/ \E event \in Events : Len(sreg) < MaxOn /\ OnSubscribe(event, NoCallback)
    \/ BackendAddChild
    \/ BackendError
    \/ DeliverLive
    \/ \E id \in 1..Len(sreg) : \E raw \in sreg[id].reads : ReplayDeliver(id, raw)

\* registrations without a callback and with one, streams with and without a
\* subscriber, off without a callback, and the delivery of events
EvtNext ==
    \/ \E o \in EvtOns : On(o[1], o[2])
    \/ Off("child_added", NoCallback)
    \/ OnSubscribe("child_added", NoCallback)
    \/ BackendAddChild
    \/ DeliverLive
    \/ \E id \in 1..Len(sreg) : \E raw \in sreg[id].reads : ReplayDeliver(id, raw)

(***************************************************************************)
(* Specifications.                                                         *)
(***************************************************************************)
\* the state in which no run of any part has started
Idle ==
    /\ cpc = "idle"
    /\ cv = Undefined
    /\ cenv = NoEnvelope
    /\ cout = Undefined
    /\ wcalls = <<>>
    /\ wacked = 0
    /\ wstore = <<>>
    /\ wlast = NoOp
    /\ wpush = <<>>
    /\ rpc = "idle"
    /\ rquery = NoOptions
    /\ rrefs = <<>>
    /\ rcalls = <<>>
    /\ rout = <<>>
    /\ rorder = <<>>
    /\ rprom = NoResult
    /\ rstore = Nodes
    /\ q = EmptyQuery
    /\ qsent = <<>>
    /\ qorders = <<>>
    /\ qtake = -1
    /\ qn = 0
    /\ qlast = NoCall
    /\ tstore = NoEnvelope
    /\ tver = 0
    /\ ttx = [t \in Txns |-> NoTx]
    /\ twrites = 0
    /\ tlast = NoCommit
    /\ snode = Null
    /\ sreg = <<>>
    /\ sregs = <<>>
    /\ ssubs = {}
    /\ sflight = <<>>
    /\ sdeliv = <<>>
    /\ scalls = <<>>
    /\ sadds = 0
    /\ sops = 0
    /\ slast = NoSubOp
    /\ spub = <<>>
    /\ slive = NoLive
    /\ serrd = {}
    /\ serrs = 0

\* the codec is about to run on one of the values
CodecInit ==
    /\ cpc = "start"
    /\ cv \in Values(MaxDepth)
    /\ cenv = NoEnvelope
    /\ cout = Undefined
    /\ wcalls = <<>>
    /\ wacked = 0
    /\ wstore = <<>>
    /\ wlast = NoOp
    /\ wpush = <<>>
    /\ rpc = "idle"
    /\ rquery = NoOptions
    /\ rrefs = <<>>
    /\ rcalls = <<>>
    /\ rout = <<>>
    /\ rorder = <<>>
    /\ rprom = NoResult
    /\ rstore = Nodes
    /\ q = EmptyQuery
    /\ qsent = <<>>
    /\ qorders = <<>>
    /\ qtake = -1
    /\ qn = 0
    /\ qlast = NoCall
    /\ tstore = NoEnvelope
    /\ tver = 0
    /\ ttx = [t \in Txns |-> NoTx]
    /\ twrites = 0
    /\ tlast = NoCommit
    /\ snode = Null
    /\ sreg = <<>>
    /\ sregs = <<>>
    /\ ssubs = {}
    /\ sflight = <<>>
    /\ sdeliv = <<>>
    /\ scalls = <<>>
    /\ sadds = 0
    /\ sops = 0
    /\ slast = NoSubOp
    /\ spub = <<>>
    /\ slive = NoLive
    /\ serrd = {}
    /\ serrs = 0

SpecCodec == CodecInit /\ [][CodecNext]_vars

SpecWrite == Idle /\ [][WriteNext]_vars

SpecQuery == Idle /\ [][QueryNext]_vars

SpecPage == Idle /\ [][PageNext]_vars

SpecUpdate == Idle /\ [][UpdateNext]_vars

SpecPush == Idle /\ [][PushNext]_vars

SpecQRemove == Idle /\ [][QRemoveNext]_vars

\* transactions start on a path that holds a Date or nothing
TxnInit ==
    /\ cpc = "idle"
    /\ cv = Undefined
    /\ cenv = NoEnvelope
    /\ cout = Undefined
    /\ wcalls = <<>>
    /\ wacked = 0
    /\ wstore = <<>>
    /\ wlast = NoOp
    /\ wpush = <<>>
    /\ rpc = "idle"
    /\ rquery = NoOptions
    /\ rrefs = <<>>
    /\ rcalls = <<>>
    /\ rout = <<>>
    /\ rorder = <<>>
    /\ rprom = NoResult
    /\ rstore = Nodes
    /\ q = EmptyQuery
    /\ qsent = <<>>
    /\ qorders = <<>>
    /\ qtake = -1
    /\ qn = 0
    /\ qlast = NoCall
    /\ tstore \in {typesSerialize(TxnPath, Null), typesSerialize(TxnPath, DateV(0))}
    /\ tver = 0
    /\ ttx = [t \in Txns |-> NoTx]
    /\ twrites = 0
    /\ tlast = NoCommit
    /\ snode = Null
    /\ sreg = <<>>
    /\ sregs = <<>>
    /\ ssubs = {}
    /\ sflight = <<>>
    /\ sdeliv = <<>>
    /\ scalls = <<>>
    /\ sadds = 0
    /\ sops = 0
    /\ slast = NoSubOp
    /\ spub = <<>>
    /\ slive = NoLive
    /\ serrd = {}
    /\ serrs = 0

SpecTxn == TxnInit /\ [][TxnNext]_vars

\* a Reference with no registration, on a node that has two children
SubInit ==
    /\ cpc = "idle"
    /\ cv = Undefined
    /\ cenv = NoEnvelope
    /\ cout = Undefined
    /\ wcalls = <<>>
    /\ wacked = 0
    /\ wstore = <<>>
    /\ wlast = NoOp
    /\ wpush = <<>>
    /\ rpc = "idle"
    /\ rquery = NoOptions
    /\ rrefs = <<>>
    /\ rcalls = <<>>
    /\ rout = <<>>
    /\ rorder = <<>>
    /\ rprom = NoResult
    /\ rstore = Nodes
    /\ q = EmptyQuery
    /\ qsent = <<>>
    /\ qorders = <<>>
    /\ qtake = -1
    /\ qn = 0
    /\ qlast = NoCall
    /\ tstore = NoEnvelope
    /\ tver = 0
    /\ ttx = [t \in Txns |-> NoTx]
    /\ twrites = 0
    /\ tlast = NoCommit
    /\ snode \in InitialNodes
    /\ sreg = <<>>
    /\ sregs = <<>>
    /\ ssubs = {}
    /\ sflight = <<>>
    /\ sdeliv = <<>>
    /\ scalls = <<>>
    /\ sadds = 0
    /\ sops = 0
    /\ slast = NoSubOp
    /\ spub = <<>>
    /\ slive = NoLive
    /\ serrd = {}
    /\ serrs = 0

SpecSub == SubInit /\ [][SubNext]_vars

SpecOff == SubInit /\ [][OffNext]_vars

\* a Reference with no registration, on a node that has one child
EvtInit ==
    /\ cpc = "idle"
    /\ cv = Undefined
    /\ cenv = NoEnvelope
    /\ cout = Undefined
    /\ wcalls = <<>>
    /\ wacked = 0
    /\ wstore = <<>>
    /\ wlast = NoOp
    /\ wpush = <<>>
    /\ rpc = "idle"
    /\ rquery = NoOptions
    /\ rrefs = <<>>
    /\ rcalls = <<>>
    /\ rout = <<>>
    /\ rorder = <<>>
    /\ rprom = NoResult
    /\ rstore = Nodes
    /\ q = EmptyQuery
    /\ qsent = <<>>
    /\ qorders = <<>>
    /\ qtake = -1
    /\ qn = 0
    /\ qlast = NoCall
    /\ tstore = NoEnvelope
    /\ tver = 0
    /\ ttx = [t \in Txns |-> NoTx]
    /\ twrites = 0
    /\ tlast = NoCommit
    /\ snode = OneChild
    /\ sreg = <<>>
    /\ sregs = <<>>
    /\ ssubs = {}
    /\ sflight = <<>>
    /\ sdeliv = <<>>
    /\ scalls = <<>>
    /\ sadds = 0
    /\ sops = 0
    /\ slast = NoSubOp
    /\ spub = <<>>
    /\ slive = NoLive
    /\ serrd = {}
    /\ serrs = 0

SpecEvt == EvtInit /\ [][EvtNext]_vars

SpecLive == EvtInit /\ [][LiveNext]_vars

(***************************************************************************)
(* Properties of the codec.                                                *)
(***************************************************************************)
\* C1: for every supported value v, with any property names,
\* deserialize(serialize(v)) is equal to v.
C1_RoundTrip == cpc = "done" => Equiv(cout, cv)

\* the round trip restricted to values whose property names are plain
RoundTripPlainKeys == (cpc = "done" /\ PlainKeys(cv)) => Equiv(cout, cv)

\* the tag serialize gives a leaf, "" for a value it does not tag
TagOf(v) ==
    IF v.kind = "date" THEN "date"
    ELSE IF v.kind = "bin" THEN "binary"
    ELSE IF v.kind = "ref" THEN "reference"
    ELSE ""

\* the Date, binary and path-link leaves of a composite value: the property
\* names that lead to each and its tag
RECURSIVE TaggedLeaves(_)
TaggedLeaves(v) ==
    UNION {LET key == v.kids[i][1]
               kid == v.kids[i][2]
           IN  IF TagOf(kid) # "" THEN {<<<<key>>, TagOf(kid)>>}
               ELSE IF IsContainer(kid)
                    THEN {<<<<key>> \o p[1], p[2]>> : p \in TaggedLeaves(kid)}
               ELSE {} : i \in 1..Len(v.kids)}

\* property names joined with "/"
RECURSIVE JoinFrom(_, _)
JoinFrom(keys, i) ==
    IF i > Len(keys) THEN <<>>
    ELSE IF i = Len(keys) THEN keys[i]
    ELSE keys[i] \o <<"/">> \o JoinFrom(keys, i + 1)

\* path a is a proper path prefix of path b
IsPathPrefix(a, b) ==
    /\ Len(a) < Len(b)
    /\ SubSeq(b, 1, Len(a)) = a
    /\ b[Len(a) + 1] = "/"

\* the position of val a key of map addresses
RECURSIVE valueAt(_, _, _)
valueAt(val, keys, i) ==
    IF i > Len(keys) THEN val
    ELSE IF val.kind \in {"undefined", "null"} THEN Undefined
    ELSE valueAt(GetProp(val, keys[i]), keys, i + 1)

\* C23: in the envelope serialize produces for a composite value no key of
\* map is a path prefix of another, every key of map addresses a position
\* of val that holds a string, and the entries of map are exactly the Date,
\* binary and path-link leaves of the input, each with its tag.
C23_TagsAreLeaves ==
    (cpc # "start" /\ IsContainer(cv)) =>
        /\ \A i, j \in 1..Len(cenv.entries) :
               ~IsPathPrefix(cenv.entries[i][1], cenv.entries[j][1])
        /\ \A i \in 1..Len(cenv.entries) :
               valueAt(serialize(cv).val, pathKeys(cenv.entries[i][1]), 1).kind = "str"
        /\ {<<cenv.entries[i][1], cenv.entries[i][2]>> : i \in 1..Len(cenv.entries)}
               = {<<JoinFrom(p[1], 1), p[2]>> : p \in TaggedLeaves(cv)}
        /\ Len(cenv.entries) = Cardinality(TaggedLeaves(cv))

\* the same restricted to values whose property names are plain
TagsAreLeavesPlainKeys == PlainKeys(cv) => C23_TagsAreLeaves

(***************************************************************************)
(* Properties of on and off.                                               *)
(***************************************************************************)
\* the positions in sdeliv of the calls of the callback of registration id
\* that are of the given kind
DeliveriesOf(id, kind) ==
    {j \in 1..Len(sdeliv) : sdeliv[j].id = id /\ sdeliv[j].kind = kind}

\* the registrations made by on(event, callback) with a callback function
FunctionRegs(event) ==
    {id \in 1..Len(sreg) : sreg[id].event = event /\ IsFunction(sreg[id].original)}

\* C2: on("value", cb) with a callback function delivers exactly one
\* synthetic snapshot of the node to cb, and cb receives it before any
\* live event, however the replay read and the backend's events interleave.
C2_ValueReplayFirst ==
    \A id \in FunctionRegs("value") :
        /\ Cardinality(DeliveriesOf(id, "synthetic")) <= 1
        /\ \A j \in DeliveriesOf(id, "live") :
               \E i \in DeliveriesOf(id, "synthetic") : i < j

\* C3: on("child_added", cb) with a callback function on a parent that has
\* children delivers the synthetic snapshots of the children to cb before
\* cb receives any live child_added event.
C3_ChildReplayFirst ==
    (snode.kind = "obj" /\ Len(snode.kids) > sadds) =>
        \A id \in FunctionRegs("child_added") :
            \A j \in DeliveriesOf(id, "live") :
                /\ sreg[id].replay = "done"
                /\ DeliveriesOf(id, "synthetic") # {}
                /\ \A i \in DeliveriesOf(id, "synthetic") : i < j

\* the registrations listed before the last call of off
ListedBefore == {slast.regs[i] : i \in 1..Len(slast.regs)}

\* the last call was off(event, cb) and it left: the list without
\* registration id, the stream of id stopped and every other stream as it
\* was, the backend subscription of id for the event removed, and one
\* unsubscribe call for the event with the handler of id
OffRemovedOnly(id) ==
    /\ sregs = spliceOne(slast.regs, indexOf(slast.regs, id))
    /\ sreg[id].stream = "stopped"
    /\ \A other \in (1..Len(sreg)) \ {id} : sreg[other].stream = slast.reg[other].stream
    /\ ssubs = slast.subs \ {Sub(id, slast.event)}
    /\ scalls = Append(slast.calls, RefCall("unsubscribe", slast.event, id))

\* C4: off(event, cb) with a registered callback removes exactly the
\* registration made by on(event, cb): its stream is stopped, the backend
\* unsubscribe is for that event with that registration's handler, and
\* every other registration keeps its entry, stream and subscription.
C4_OffRemovesMatching ==
    (/\ slast.op = "off"
     /\ \E id \in ListedBefore :
            slast.reg[id].original = slast.cb /\ slast.reg[id].event = slast.event)
    => \E id \in ListedBefore :
            /\ slast.reg[id].original = slast.cb
            /\ slast.reg[id].event = slast.event
            /\ OffRemovedOnly(id)

\* the last call was off with a callback, one that no listed registration was
\* made with
OffMissed ==
    /\ slast.op = "off"
    /\ IsTruthy(slast.cb)
    /\ \A id \in ListedBefore : slast.reg[id].original # slast.cb

\* C5: off(event, cb) with a callback that no registration of the
\* Reference was made with changes nothing: the list is unchanged, no
\* stream is stopped and no backend unsubscribe call is made.
C5_OffMissChangesNothing ==
    OffMissed =>
        /\ sregs = slast.regs
        /\ Len(sreg) = Len(slast.reg)
        /\ \A id \in 1..Len(sreg) : sreg[id].stream = slast.reg[id].stream
        /\ ssubs = slast.subs
        /\ scalls = slast.calls

C5_Witness ==
    /\ OffMissed
    /\ Len(slast.regs) >= 1

\* the last handler invocation was for an event with data / with an error
HandledEvent == slive.e.h # 0 /\ ~slive.e.err
HandledError == slive.e.h # 0 /\ slive.e.err

\* the snapshot the last handler invocation was about
HandledSnap(kind) ==
    Delivery(slive.e.h, kind, slive.e.path, typesDeserialize(slive.e.path, slive.e.newValue))

\* C11: a handler invoked with an error drops the event: the callback is not
\* called, nothing is published, the registration stays listed and no
\* unsubscribe is issued; a later event with data on the same subscription
\* is still published and handed to the callback.
C11_ErrorDropped ==
    /\ HandledError => slive.post = slive.pre
    /\ (HandledEvent /\ slive.e.h \in serrd) =>
           /\ slive.post.pub = Append(slive.pre.pub, HandledSnap("live"))
           /\ IsFunction(sreg[slive.e.h].original) =>
                  slive.post.deliv = Append(slive.pre.deliv, HandledSnap("live"))

C11_Witness ==
    /\ HandledEvent
    /\ slive.e.h \in serrd
    /\ IsFunction(sreg[slive.e.h].original)
    /\ indexOf(sregs, slive.e.h) >= 0

\* C12: once the promise of once(event), event other than "value", has
\* resolved, its registration is no longer listed and its backend
\* subscription is gone.
C12_OnceIsOneShot ==
    \A id \in 1..Len(sreg) :
        sreg[id].promise.state = "resolved" =>
            /\ indexOf(sregs, id) = -1
            /\ Sub(id, sreg[id].event) \notin ssubs

\* C13: once(event), event other than "value", resolves with the snapshot of
\* a live occurrence of the event, never with a replay of earlier data.
C13_OnceResolvesLive ==
    \A id \in 1..Len(sreg) :
        sreg[id].promise.state = "resolved" => sreg[id].promise.kind = "live"

\* whether off(event) without a callback is to keep registration id
KeptByOff(id) == slast.reg[id].event # slast.event

\* C14: off(event) without a callback stops and unsubscribes the
\* registrations made for that event and only those: the registrations for
\* other events stay listed, their streams running and their backend
\* subscriptions in place.
C14_OffEventOnlyThatEvent ==
    (slast.op = "off" /\ ~IsTruthy(slast.cb) /\ slast.event # NoEvent) =>
        /\ sregs = SelectSeq(slast.regs, KeptByOff)
        /\ \A id \in 1..Len(sreg) :
               sreg[id].stream = IF id \in ListedBefore /\ ~KeptByOff(id) THEN "stopped"
                                 ELSE slast.reg[id].stream
        /\ ssubs = {s \in slast.subs : s.event # slast.event}

\* the live events dispatched to handler id and not yet handled
InFlight(id) == {j \in 1..Len(sflight) : sflight[j].h = id /\ ~sflight[j].err}

\* C15: on with a callback issues the backend subscribe before the read of
\* the replay, and no event of a write made after on is lost: each is on
\* its way to the handler or has been handed to the callback.
C15_SubscribeBeforeReplay ==
    \A id \in 1..Len(sreg) :
        /\ sreg[id].replay # "none" =>
               indexOf(scalls, RefCall("subscribe", sreg[id].event, id))
                   < indexOf(scalls, RefCall("get", "value", id))
        /\ IsFunction(sreg[id].original) =>
               Cardinality(InFlight(id)) + Cardinality(DeliveriesOf(id, "live"))
                   = sadds - sreg[id].since

C15_Witness ==
    \E id \in 1..Len(sreg) :
        /\ IsFunction(sreg[id].original)
        /\ sreg[id].replay = "done"
        /\ sadds > sreg[id].since
        /\ DeliveriesOf(id, "live") # {}

\* the registrations the last off(event, cb) removed from the list
RemovedByOff == {id \in ListedBefore : indexOf(sregs, id) = -1}

\* C21: when off(event, cb) removes a registration whose replay read is
\* still in flight, the result of the read is discarded: cb is not called
\* with a synthetic snapshot after off has returned.
C21_ReplayDiscardedAfterOff ==
    (slast.op = "off" /\ IsTruthy(slast.cb)) =>
        \A id \in RemovedByOff :
            slast.reg[id].replay = "issued" => DeliveriesOf(id, "synthetic") = {}

\* the value the replay read of registration id resolved with
ReplayValue(id) == typesDeserialize(NodePath, sreg[id].read)

\* registration id was made by on("child_added", cb) and its replay read
\* found no value or a scalar
ReplayFoundNoChildren(id) ==
    /\ sreg[id].event = "child_added"
    /\ IsFunction(sreg[id].original)
    /\ sreg[id].replay \in {"done", "threw"}
    /\ ReplayValue(id).kind \in {"null", "undefined", "num", "str"}

\* C22: on("child_added", cb) on a node that has no value or holds a scalar
\* synthesizes no event and raises no error in the replay, and the
\* registration stays, so that the events of children added later are
\* handed to cb.
C22_EmptyReplayIsQuiet ==
    \A id \in 1..Len(sreg) :
        ReplayFoundNoChildren(id) =>
            /\ DeliveriesOf(id, "synthetic") = {}
            /\ sreg[id].replay # "threw"
            /\ indexOf(sregs, id) >= 0
            /\ Sub(id, "child_added") \in ssubs
            /\ Cardinality(InFlight(id)) + Cardinality(DeliveriesOf(id, "live"))
                   = sadds - sreg[id].since

\* the same for a node that holds a scalar
EmptyReplayIsQuietScalar ==
    \A id \in 1..Len(sreg) :
        (ReplayFoundNoChildren(id) /\ ReplayValue(id).kind # "null") =>
            /\ DeliveriesOf(id, "synthetic") = {}
            /\ sreg[id].replay # "threw"
            /\ indexOf(sregs, id) >= 0
            /\ Sub(id, "child_added") \in ssubs

(***************************************************************************)
(* Properties of a handler that unsubscribes itself.                       *)
(***************************************************************************)
\* the stream of the last handler invocation still had a subscriber when the
\* handler published to it
StreamKept ==
    /\ slive.pre.reg[slive.e.h].stream = "running"
    /\ slive.pre.reg[slive.e.h].listeners > 0

\* the last handler invocation was for an event with data, on a registration
\* made without a callback function, and the stream had no subscriber left
UnsubscribeCase ==
    /\ HandledEvent
    /\ ~IsFunction(sreg[slive.e.h].original)
    /\ ~StreamKept

\* C19: a handler of a registration made without a callback function
\* unsubscribes itself exactly when it publishes a live event and the stream
\* has no subscriber left: its registration is then not listed and backend
\* unsubscribe is issued for its event with itself; a handler of a
\* registration made with a callback function never does.
C19_SelfUnsubscribe ==
    HandledEvent =>
        IF UnsubscribeCase
        THEN /\ indexOf(slive.post.regs, slive.e.h) = -1
             /\ slive.post.calls =
                    Append(slive.pre.calls,
                           RefCall("unsubscribe", sreg[slive.e.h].event, slive.e.h))
             /\ Sub(slive.e.h, sreg[slive.e.h].event) \notin slive.post.subs
        ELSE /\ slive.post.regs = slive.pre.regs
             /\ slive.post.calls = slive.pre.calls
             /\ slive.post.subs = slive.pre.subs

C19_Witness ==
    /\ UnsubscribeCase
    /\ indexOf(slive.pre.regs, slive.e.h) >= 0

\* C20: whatever on, off and deliveries came before, a handler removes from
\* the list of registrations at most its own registration.
C20_RemovesOnlyOwn ==
    slive.e.h # 0 =>
        \A i \in 1..Len(slive.pre.regs) :
            slive.pre.regs[i] # slive.e.h => indexOf(slive.post.regs, slive.pre.regs[i]) >= 0

(***************************************************************************)
(* Properties of set and remove.                                           *)
(***************************************************************************)
\* C6: set(undefined) on any Reference, root or not, fails synchronously and
\* no backend call has been issued by the time it fails.
C6_SetUndefinedFails ==
    (wlast.op = "set" /\ wlast.value = Undefined)
        => (wlast.threw /\ wcalls = wlast.before)

\* set(undefined) has failed on a Reference that is not the root, after
\* earlier calls reached the backend
C6_Witness ==
    /\ wlast.op = "set"
    /\ wlast.value = Undefined
    /\ wlast.path # RootPath
    /\ wlast.threw
    /\ Len(wcalls) > 0

\* C7: on the root Reference set(v), for every v, and remove() fail
\* synchronously without a backend call; on every other Reference remove()
\* issues exactly the backend set that set(null) issues.
C7_RootFailsRemoveIsSetNull ==
    /\ (wlast.op \in {"set", "remove"} /\ wlast.path = RootPath)
          => (wlast.threw /\ wcalls = wlast.before)
    /\ (wlast.op = "remove" /\ wlast.path # RootPath)
          => /\ ~wlast.threw
             /\ wcalls = Append(wlast.before,
                                ApiCall("set", wlast.path, Envelope("none", "", <<>>, Null)))

\* remove() has been called on a Reference that is not the root
C7_Witness ==
    /\ wlast.op = "remove"
    /\ wlast.path # RootPath
    /\ Len(wcalls) = Len(wlast.before) + 1

(***************************************************************************)
(* Properties of update and push.                                          *)
(***************************************************************************)
\* the backend calls the last operation issued
IssuedByLast == SubSeq(wcalls, Len(wlast.before) + 1, Len(wcalls))

\* C16: update(updates) with updates not a plain keyed structure (an array,
\* binary, a Date or a scalar, null included) does what set(updates) does,
\* a backend set with the serialized value or the same failure, and issues
\* no backend update; with a plain keyed structure it issues one backend
\* update and no backend set.
C16_UpdateAsSet ==
    wlast.op = "update" =>
        IF wlast.value.kind # "obj"
        THEN /\ wcalls = setCall(wlast.path, wlast.value, wlast.before).calls
             /\ wlast.threw = setCall(wlast.path, wlast.value, wlast.before).threw
             /\ \A i \in 1..Len(IssuedByLast) : IssuedByLast[i].api # "update"
        ELSE /\ ~wlast.threw
             /\ IssuedByLast =
                    <<ApiCall("update", wlast.path, typesSerialize(wlast.path, wlast.value))>>

\* C17: push(v) with a value issues the set of v at the child path and hands
\* out the child Reference only once the backend has acknowledged that set,
\* from when on a get of the child yields v; the child keys of the pushes on
\* one parent are pairwise distinct; push() without a value hands out the
\* child Reference at once and issues no backend call.
C17_PushAfterCommit ==
    /\ \A i \in 1..Len(wpush) :
           IF wpush[i].value.kind = "undefined"
           THEN wpush[i].call = 0 /\ wpush[i].resolved
           ELSE /\ wpush[i].call \in 1..Len(wcalls)
                /\ wcalls[wpush[i].call] =
                       ApiCall("set", wpush[i].ref,
                               typesSerialize(wpush[i].ref, wpush[i].value))
                /\ wpush[i].resolved =>
                       /\ wpush[i].call <= wacked
                       /\ Equiv(getValue(wpush[i].ref), wpush[i].value)
    /\ \A i, j \in 1..Len(wpush) :
           (i # j /\ wpush[i].parent = wpush[j].parent) => wpush[i].ref # wpush[j].ref
    /\ (wlast.op = "push" /\ wlast.value.kind = "undefined") =>
           /\ wcalls = wlast.before
           /\ wpush[Len(wpush)].resolved

\* two pushes on one parent, the first with a value and acknowledged, the
\* last without a value
C17_Witness ==
    /\ Len(wpush) >= 2
    /\ wpush[1].parent = wpush[Len(wpush)].parent
    /\ wpush[1].value.kind = "obj"
    /\ wpush[1].resolved
    /\ wlast.op = "push"
    /\ wlast.value.kind = "undefined"

(***************************************************************************)
(* Properties of the query builder.                                        *)
(***************************************************************************)
\* the rule of each operator (spec, section 3)
OperatorRule(op, compare) ==
    /\ op \in {"in", "!in"} => (compare.ckind = "array" /\ compare.len >= 1)
    /\ op \in {"between", "!between"} => (compare.ckind = "array" /\ compare.len = 2)
    /\ op \in {"matches", "!matches"} => compare.ckind = "regexp"
    /\ op = "custom" => compare.ckind = "function"

\* C8: where fails synchronously when compare breaks the rule of op; a
\* failed where leaves the descriptor unchanged, so every stored filter
\* satisfies the rule of its operator.
C8_WhereValidates ==
    /\ (qlast.op = "where" /\ ~OperatorRule(qlast.a, qlast.c))
          => (qlast.threw /\ q = qlast.before)
    /\ \A i \in 1..Len(q.filters) :
          OperatorRule(q.filters[i].op, q.filters[i].compare)

\* a where has failed on a descriptor that already holds a sort key
C8_Witness ==
    /\ qlast.op = "where"
    /\ qlast.a = "between"
    /\ qlast.c = Compare("array", 1)
    /\ qlast.threw
    /\ Len(q.order) > 0

\* C9: the descriptor get() sends lists the sort keys in the order of the
\* order calls, each with its direction, whatever where / take / skip calls
\* come between, and take holds the value of the last take call.
C9_OrderInCallOrder ==
    qlast.op = "get" =>
        LET d == qsent[Len(qsent)]
        IN  /\ Len(d.order) = Len(qorders)
            /\ \A i \in 1..Len(qorders) :
                  /\ d.order[i].key = qorders[i][1]
                  /\ d.order[i].ascending = qorders[i][2]
            /\ qtake # -1 => d.take = qtake

\* get() has sent a descriptor built by two different order calls with a
\* take call after them
C9_Witness ==
    /\ qlast.op = "get"
    /\ Len(qorders) = 2
    /\ qorders[1] = <<"k1", TRUE>>
    /\ qorders[2] = <<"k2", FALSE>>
    /\ qtake = 2

(***************************************************************************)
(* Properties of take and skip.                                            *)
(***************************************************************************)
\* C24: after any calls of where, take, skip and order the descriptor holds
\* skip >= 0 and take >= 0, and a call of take or skip with a negative
\* argument fails and leaves the descriptor as it was.
C24_PagingValidated ==
    /\ q.skip >= 0
    /\ q.take >= 0
    /\ (qlast.op \in {"take", "skip"} /\ qlast.nr < 0) =>
           /\ qlast.threw
           /\ q = qlast.before

(***************************************************************************)
(* Properties of the remove of a query.                                    *)
(***************************************************************************)
\* the removals that have failed, and the one that failed first
Failed == {i \in 1..Len(rout) : rout[i] = "failed"}
FirstFailure == rorder[CHOOSE k \in 1..Len(rorder) :
                           /\ rorder[k] \in Failed
                           /\ \A m \in 1..(k - 1) : rorder[m] \notin Failed]

\* C18: the remove of a query runs the query for References only and then
\* issues one remove, a backend set of null, for every match; its promise
\* rejects with the failure of the removal that failed first and resolves
\* when all have succeeded; the other removals are performed whatever
\* became of that one, and what they removed stays removed.
C18_RemoveEachMatch ==
    /\ rpc # "idle" => rquery = [snapshots |-> FALSE]
    /\ rpc = "removing" =>
           /\ Len(rcalls) = Len(rrefs)
           /\ \A i \in 1..Len(rrefs) :
                  rcalls[i] = ApiCall("set", rrefs[i], typesSerialize(rrefs[i], Null))
           /\ IF Failed # {}
              THEN rprom = [state |-> "rejected", reason |-> FirstFailure]
              ELSE rprom.state = IF \A i \in 1..Len(rout) : rout[i] = "ok"
                                 THEN "resolved" ELSE "pending"
           /\ rstore = Nodes \ {rrefs[i] : i \in {j \in 1..Len(rout) : rout[j] = "ok"}}

\* the first removal failed, the promise rejected, and the removals of two
\* other matches were performed afterwards
C18_Witness ==
    /\ rpc = "removing"
    /\ Len(rrefs) >= 3
    /\ Len(rorder) = Len(rrefs)
    /\ rout[rorder[1]] = "failed"
    /\ \A k \in 2..Len(rorder) : rout[rorder[k]] = "ok"
    /\ rprom.state = "rejected"

(***************************************************************************)
(* Properties of transaction.                                              *)
(***************************************************************************)
\* C10: under every interleaving with other writes and transactions on the
\* path, the value a transaction commits is the serialization of updater
\* applied to the deserialized value the path held at commit time: a read
\* that is out of date is never committed, updater is invoked again.
C10_CommitOnFreshRead ==
    tlast.op = "commit" =>
        tlast.after =
            serialize(applyUpdater(tlast.upd, deserialize(tlast.before)))

\* a transaction has committed on its second invocation of updater, after
\* the path changed under its first read
C10_Witness ==
    /\ tlast.op = "commit"
    /\ ttx[tlast.t].calls >= 2
    /\ ttx[tlast.t].pc = "done"
=============================================================================
